---------------------------- MODULE Spec2Model ----------------------------
(***************************************************************************)
(* Model of the Seq collector of emit (src/collectors/seq/mod.rs) and of   *)
(* the events it ships (src/events.rs).                                    *)
(*                                                                         *)
(* A Rust String is modelled as a TLA+ string holding one unit per byte,   *)
(* so Len is the byte length (String::len) and \o is concatenation.  A     *)
(* text that the code walks character by character (the message template)  *)
(* is a sequence of characters, each character being the string of its     *)
(* UTF-8 bytes: a two-byte character is a string of length 2.              *)
(***************************************************************************)
EXTENDS Integers, Sequences, FiniteSets, TLC

\* Longest input slice handed to one dispatch call.
MaxEvents == 3

---------------------------------------------------------------------------
(* Strings                                                                 *)

RECURSIVE Concat(_)
\* The String made of the pieces ss, in order.
Concat(ss) == IF ss = <<>> THEN "" ELSE Head(ss) \o Concat(Tail(ss))

RECURSIVE ByteLen(_)
\* String::len of a text: the number of bytes of its UTF-8 encoding.
ByteLen(text) == IF text = <<>> THEN 0 ELSE Len(Head(text)) + ByteLen(Tail(text))

\* chars().take(n).collect(): the first n characters, all of them if fewer.
TakeChars(text, n) == SubSeq(text, 1, IF Len(text) < n THEN Len(text) ELSE n)

\* The character e-acute (U+00E9): two bytes in UTF-8, written here as two
\* units standing for the bytes C3 A9.
EAcute == "~e"

\* n copies of the character c.
Rep(c, n) == [k \in 1..n |-> c]

\* serde_json's escaping of one character inside a JSON string.
EscapeChar(c) ==
    CASE c = "\"" -> "\\\""
      [] c = "\\" -> "\\\\"
      [] c = "\n" -> "\\n"
      [] c = "\t" -> "\\t"
      [] OTHER    -> c

\* serde_json::to_string(&str): the text as a quoted, escaped JSON string.
JsonString(text) ==
    "\"" \o Concat([k \in 1..Len(text) |-> EscapeChar(text[k])]) \o "\""

Digit(d) ==
    CASE d = 0 -> "0" [] d = 1 -> "1" [] d = 2 -> "2" [] d = 3 -> "3"
      [] d = 4 -> "4" [] d = 5 -> "5" [] d = 6 -> "6" [] d = 7 -> "7"
      [] d = 8 -> "8" [] d = 9 -> "9"

Pad2(n) == Digit((n \div 10) % 10) \o Digit(n % 10)

Pad4(n) == Pad2(n \div 100) \o Pad2(n % 100)

\* timestamp.format("%FT%TZ"): YYYY-MM-DDTHH:MM:SSZ, no fractional seconds.
FormatTimestamp(ts) ==
    Pad4(ts.year) \o "-" \o Pad2(ts.month) \o "-" \o Pad2(ts.day) \o "T"
        \o Pad2(ts.hour) \o ":" \o Pad2(ts.minute) \o ":" \o Pad2(ts.second) \o "Z"

---------------------------------------------------------------------------
(* Constants of the collector                                              *)

DEFAULT_EVENT_BODY_LIMIT_BYTES == 1024 * 256
DEFAULT_BATCH_LIMIT_BYTES == 1024 * 1024 * 10
LOCAL_SERVER_URL == "http://localhost:5341/"

SEQ_LEVEL_NAMES == <<"Fatal", "Error", "Warning", "Information", "Debug", "Verbose">>

HEADER == "{\"Events\":["
HEADER_LEN == 11
FOOTER == "]}"
FOOTER_LEN == 2

\* The number of characters of the template kept in a placeholder.
INITIAL_CHARS == 64

\* level as usize indexes the table from 0; a TLA+ sequence starts at 1.
to_seq_level(level) == SEQ_LEVEL_NAMES[level + 1]

---------------------------------------------------------------------------
(* Payload formatting                                                      *)

\* One entry of the properties object: "name":value, both written raw.
FormatProperty(p) == "\"" \o Concat(p.n) \o "\":" \o p.v

\* The entries in the map's iteration order, separated by commas.
FormatProperties(props) ==
    Concat([k \in 1..Len(props) |->
              (IF k = 1 THEN "" ELSE ",") \o FormatProperty(props[k])])

format_payload(event) ==
    "{\"Timestamp\":\"" \o FormatTimestamp(event.timestamp)
        \o "\",\"Level\":\"" \o to_seq_level(event.level)
        \o "\",\"MessageTemplate\":" \o JsonString(event.text)
        \o ",\"Properties\":{" \o FormatProperties(event.properties)
        \o "}}"

RECURSIVE TakeBytes(_, _)
\* The longest prefix of the text that takes at most n bytes.
TakeBytes(text, n) ==
    IF text = << >> \/ Len(Head(text)) > n THEN << >>
    ELSE <<Head(text)>> \o TakeBytes(Tail(text), n - Len(Head(text)))

\* Initial cut at 64 bytes instead of 64 characters.
Initial_ByBytes(event) ==
    IF ByteLen(event.text) > INITIAL_CHARS
    THEN TakeBytes(event.text, INITIAL_CHARS)
    ELSE event.text

\* The part of the template a placeholder keeps.
Initial(event) ==
    IF ByteLen(event.text) > INITIAL_CHARS
    THEN TakeChars(event.text, INITIAL_CHARS)
    ELSE event.text

format_oversize_placeholder(event) ==
    "{\"Timestamp\":\"" \o FormatTimestamp(event.timestamp)
        \o "\",\"Level\":\"" \o to_seq_level(event.level)
        \o "\",\"MessageTemplate\":\"(Event too large) {initial}...\""
        \o ",\"Properties\":{\"target\":\"emit::collectors::seq\",\"initial\":"
        \o JsonString(Initial(event))
        \o "}}"

\* Payload substituting the placeholder without measuring it.
Payload_NoSecondCheck(event, event_body_limit_bytes) ==
    LET normal == format_payload(event) IN
    IF Len(normal) > event_body_limit_bytes
    THEN [kind |-> "Placeholder", text |-> format_oversize_placeholder(event)]
    ELSE [kind |-> "Normal", text |-> normal]

\* Payload refusing a fragment or placeholder that is exactly at the limit.
Payload_StrictLimit(event, event_body_limit_bytes) ==
    LET normal == format_payload(event) IN
    IF Len(normal) >= event_body_limit_bytes
    THEN LET placeholder == format_oversize_placeholder(event) IN
         IF Len(placeholder) >= event_body_limit_bytes
         THEN [kind |-> "Dropped", text |-> ""]
         ELSE [kind |-> "Placeholder", text |-> placeholder]
    ELSE [kind |-> "Normal", text |-> normal]

\* What the head of dispatch's loop body leaves in payload: the normal
\* fragment, the placeholder, or nothing (the continue that skips the event).
Payload(event, event_body_limit_bytes) ==
    LET normal == format_payload(event) IN
    IF Len(normal) > event_body_limit_bytes
    THEN LET placeholder == format_oversize_placeholder(event) IN
         IF Len(placeholder) > event_body_limit_bytes
         THEN [kind |-> "Dropped", text |-> ""]
         ELSE [kind |-> "Placeholder", text |-> placeholder]
    ELSE [kind |-> "Normal", text |-> normal]

---------------------------------------------------------------------------
(* Inputs                                                                  *)

Timestamp2014 ==
    [year |-> 2014, month |-> 7, day |-> 8, hour |-> 9, minute |-> 10, second |-> 11]

\* The event of the test events_are_formatted.
EvExample ==
    [timestamp  |-> Timestamp2014,
     level      |-> 2,
     text       |-> <<"T","h","e"," ","n","u","m","b","e","r"," ","i","s"," ",
                      "{","n","u","m","b","e","r","}">>,
     properties |-> << [n |-> <<"n","u","m","b","e","r">>, v |-> "42"] >>]

\* A small event without properties.
EvShort ==
    [timestamp  |-> [Timestamp2014 EXCEPT !.second = 59],
     level      |-> 1,
     text       |-> <<"H","i">>,
     properties |-> << >>]

\* A template of 70 characters whose first 64 take 67 bytes, with characters
\* that need escaping, and a property that makes the normal fragment longer
\* than the placeholder.
EvLong ==
    [timestamp  |-> [Timestamp2014 EXCEPT !.year = 2015, !.month = 12],
     level      |-> 5,
     text       |-> <<EAcute, EAcute, EAcute>> \o Rep("x", 59)
                        \o <<"\"", "\\", "y", "z", "w", "\n", "t", "u">>,
     properties |-> << [n |-> <<"a">>, v |-> "\"" \o Concat(Rep("v", 80)) \o "\""],
                       [n |-> <<"b">>, v |-> "[1,2,3]"] >>]

\* A template of 40 two-byte characters: more than 64 bytes, fewer than 64
\* characters.
EvWide ==
    [timestamp  |-> Timestamp2014,
     level      |-> 3,
     text       |-> Rep(EAcute, 40),
     properties |-> << [n |-> <<"k">>, v |-> "\"" \o Concat(Rep("w", 90)) \o "\""] >>]

SampleEvents == {EvExample, EvShort, EvLong, EvWide}

RECURSIVE SeqsUpTo(_, _)
\* The sequences over S of length at most n.
SeqsUpTo(S, n) ==
    IF n = 0 THEN {<< >>}
    ELSE LET shorter == SeqsUpTo(S, n - 1) IN
         shorter \cup {Append(s, x) : s \in {t \in shorter : Len(t) = n - 1}, x \in S}

Inputs == SeqsUpTo(SampleEvents, MaxEvents)

\* Event body limits: nothing fits; only EvShort fits; EvLong and EvWide fit
\* as placeholders only; the default.
EventBodyLimits ==
    {10,
     Len(format_payload(EvShort)),
     Len(format_oversize_placeholder(EvWide)),
     DEFAULT_EVENT_BODY_LIMIT_BYTES}

\* Batch limits: less than an empty body; room for EvExample and one byte
\* more; room for two events; the default.
BatchLimits ==
    {HEADER_LEN + FOOTER_LEN - 1,
     HEADER_LEN + FOOTER_LEN + Len(format_payload(EvExample)) + 1,
     HEADER_LEN + FOOTER_LEN + Len(format_payload(EvExample)) + 1
         + Len(format_payload(EvShort)),
     DEFAULT_BATCH_LIMIT_BYTES}

\* SeqCollector::new: the collector holds the limits it was given.
Collectors ==
    {[api_key |-> "none",
      event_body_limit_bytes |-> e,
      batch_limit_bytes |-> b,
      endpoint |-> LOCAL_SERVER_URL \o "api/events/raw/"] :
        e \in EventBodyLimits, b \in BatchLimits}

\* Payload of every sample event under every event body limit, worked out
\* once.
PayloadOf ==
    [e \in SampleEvents, l \in EventBodyLimits |-> Payload(e, l)]

---------------------------------------------------------------------------
(* The transport                                                           *)

\* How one POST can end: the request fails, reading the response body fails,
\* or the exchange completes with some status.
TransportOutcomes == {"send_error", "read_error", "status_2xx", "status_non_2xx"}

\* send_batch treating a status outside 2xx as an error.
send_batch_ChecksStatus(outcome) ==
    IF outcome = "status_2xx" THEN "Ok" ELSE "Err"

\* The Result of send_batch: each try! returns the error, nothing looks at
\* the status.
send_batch(outcome) ==
    IF outcome = "send_error" THEN "Err"
    ELSE IF outcome = "read_error" THEN "Err"
    ELSE "Ok"

---------------------------------------------------------------------------
(* dispatch                                                                *)

VARIABLES
    collector,  \* the SeqCollector
    pc,         \* where the dispatch call stands: idle, loop, send_flush,
                \* send_final, done
    events,     \* the slice handed to dispatch
    i,          \* index of the event the loop is at
    next,       \* the buffer
    count,      \* the byte counter
    delim,      \* the delimiter
    payload,    \* the fragment formatted in this iteration
    result,     \* what dispatch returned: Ok, Err, or none while it runs
    requests,   \* the send_batch calls of this dispatch call, in order:
                \* body, the indices of the events in it, and how it ended
    held,       \* the indices of the events whose fragments are in next
    ev,         \* an Event being built and enriched
    call,       \* the last operation applied to ev, with its arguments
    out,        \* what format_payload returned for ev, "" before it is called
    calls       \* the locals of the dispatch calls that run concurrently

\* The locals of the one dispatch call followed step by step.
dispatchVars == <<pc, events, i, next, count, delim, payload, result,
                  requests, held>>

enrichVars == <<ev, call, out>>

vars == <<collector, dispatchVars, enrichVars, calls>>

Init ==
    /\ collector \in Collectors
    /\ pc = "idle"
    /\ events = << >>
    /\ i = 1
    /\ next = ""
    /\ count = 0
    /\ delim = ""
    /\ payload = ""
    /\ result = "none"
    /\ requests = << >>
    /\ held = << >>
    /\ ev = << >> /\ call = << >> /\ out = ""
    /\ calls = << >>

\* Entry of dispatch: lines 66-68.
Dispatch ==
    /\ pc = "idle"
    /\ \E evs \in Inputs : events' = evs
    /\ i' = 1
    /\ next' = HEADER
    /\ count' = HEADER_LEN + FOOTER_LEN
    /\ delim' = ""
    /\ payload' = ""
    /\ result' = "none"
    /\ requests' = << >>
    /\ held' = << >>
    /\ pc' = "loop"
    /\ UNCHANGED <<enrichVars, calls, collector, enrichVars, calls>>

\* The fragment of the event the loop is at.
Current == Payload(events[i], collector.event_body_limit_bytes)

\* MustFlush comparing the fragment alone with the limit.
MustFlush_FragmentOnly(p) ==
    delim # "" /\ Len(delim) + Len(p) > collector.batch_limit_bytes

\* MustFlush flushing already when the body would be exactly at the limit.
MustFlush_AtLimit(p) ==
    delim # "" /\ count + Len(delim) + Len(p) >= collector.batch_limit_bytes

\* The condition of line 81.
MustFlush(p) ==
    delim # "" /\ count + Len(delim) + Len(p) > collector.batch_limit_bytes

\* DropEvent with the oversize event surfaced as an error of dispatch.
DropEvent_Abort ==
    /\ pc = "loop" /\ i <= Len(events)
    /\ Current.kind = "Dropped"
    /\ result' = "Err"
    /\ pc' = "done"
    /\ UNCHANGED <<enrichVars, calls, collector, events, i, next, count, delim, payload, requests,
                   held>>

\* Lines 72-77: neither the fragment nor the placeholder fits; continue.
DropEvent ==
    /\ pc = "loop" /\ i <= Len(events)
    /\ Current.kind = "Dropped"
    /\ i' = i + 1
    /\ UNCHANGED <<enrichVars, calls, collector, pc, events, next, count, delim, payload, result,
                   requests, held>>

\* Lines 81-83: close the buffer and call send_batch.
FlushBatch ==
    /\ pc = "loop" /\ i <= Len(events)
    /\ Current.kind # "Dropped"
    /\ MustFlush(Current.text)
    /\ payload' = Current.text
    /\ next' = next \o FOOTER
    /\ pc' = "send_flush"
    /\ UNCHANGED <<enrichVars, calls, collector, events, i, count, delim, result, requests, held>>

\* AppendEvent with the delimiter forgotten.
AppendEvent_NoDelim ==
    /\ pc = "loop" /\ i <= Len(events)
    /\ Current.kind # "Dropped"
    /\ ~MustFlush(Current.text)
    /\ payload' = Current.text
    /\ next' = next \o Current.text
    /\ count' = count + Len(delim) + Len(Current.text)
    /\ delim' = ","
    /\ held' = Append(held, i)
    /\ i' = i + 1
    /\ UNCHANGED <<enrichVars, calls, collector, pc, events, result, requests>>

\* AppendEvent skipping a fragment that is too big for a batch of its own.
AppendEvent_SkipOversize ==
    /\ pc = "loop" /\ i <= Len(events)
    /\ Current.kind # "Dropped"
    /\ ~MustFlush(Current.text)
    /\ payload' = Current.text
    /\ IF HEADER_LEN + FOOTER_LEN + Len(Current.text) > collector.batch_limit_bytes
       THEN UNCHANGED <<next, count, delim, held>>
       ELSE /\ next' = next \o delim \o Current.text
            /\ count' = count + Len(delim) + Len(Current.text)
            /\ delim' = ","
            /\ held' = Append(held, i)
    /\ i' = i + 1
    /\ UNCHANGED <<enrichVars, calls, collector, pc, events, result, requests>>

\* Lines 88-92: append to the buffer.
AppendEvent ==
    /\ pc = "loop" /\ i <= Len(events)
    /\ Current.kind # "Dropped"
    /\ ~MustFlush(Current.text)
    /\ payload' = Current.text
    /\ next' = next \o delim \o Current.text
    /\ count' = count + Len(delim) + Len(Current.text)
    /\ delim' = ","
    /\ held' = Append(held, i)
    /\ i' = i + 1
    /\ UNCHANGED <<enrichVars, calls, collector, pc, events, result, requests>>

\* CloseFinal returning Ok without a send when the buffer holds no event.
CloseFinal_SkipEmpty ==
    /\ pc = "loop" /\ i > Len(events)
    /\ IF delim = ""
       THEN /\ result' = "Ok"
            /\ pc' = "done"
            /\ UNCHANGED next
       ELSE /\ next' = next \o FOOTER
            /\ pc' = "send_final"
            /\ UNCHANGED result
    /\ UNCHANGED <<enrichVars, calls, collector, events, i, count, delim, payload, requests, held>>

\* Lines 95-96: the input is exhausted; close the buffer and call send_batch.
CloseFinal ==
    /\ pc = "loop" /\ i > Len(events)
    /\ next' = next \o FOOTER
    /\ pc' = "send_final"
    /\ UNCHANGED <<enrichVars, calls, collector, events, i, count, delim, payload, result,
                   requests, held>>

\* The send_batch call now made, as the transport ends it.
Request(outcome) == [body |-> next, evs |-> held, outcome |-> outcome]

\* SendFlushOk with the footer left out of the new count.
SendFlushOk_CountWithoutFooter ==
    /\ pc = "send_flush"
    /\ \E o \in TransportOutcomes :
          /\ send_batch(o) = "Ok"
          /\ requests' = Append(requests, Request(o))
    /\ next' = HEADER \o payload
    /\ count' = HEADER_LEN + Len(payload)
    /\ delim' = ","
    /\ held' = <<i>>
    /\ i' = i + 1
    /\ pc' = "loop"
    /\ UNCHANGED <<enrichVars, calls, collector, events, payload, result>>

\* Line 83 returns Ok: lines 85-87 start the next buffer from the fragment.
SendFlushOk ==
    /\ pc = "send_flush"
    /\ \E o \in TransportOutcomes :
          /\ send_batch(o) = "Ok"
          /\ requests' = Append(requests, Request(o))
    /\ next' = HEADER \o payload
    /\ count' = HEADER_LEN + FOOTER_LEN + Len(payload)
    /\ delim' = ","
    /\ held' = <<i>>
    /\ i' = i + 1
    /\ pc' = "loop"
    /\ UNCHANGED <<enrichVars, calls, collector, events, payload, result>>

\* Line 96 returns Ok: dispatch returns Ok(()).
SendFinalOk ==
    /\ pc = "send_final"
    /\ \E o \in TransportOutcomes :
          /\ send_batch(o) = "Ok"
          /\ requests' = Append(requests, Request(o))
    /\ result' = "Ok"
    /\ pc' = "done"
    /\ UNCHANGED <<enrichVars, calls, collector, events, i, next, count, delim, payload, held>>

\* SendErr with the error of a flush swallowed: the loop goes on.
SendErr_Swallowed ==
    /\ pc \in {"send_flush", "send_final"}
    /\ \E o \in TransportOutcomes :
          /\ send_batch(o) = "Err"
          /\ requests' = Append(requests, Request(o))
    /\ IF pc = "send_flush"
       THEN /\ next' = HEADER \o payload
            /\ count' = HEADER_LEN + FOOTER_LEN + Len(payload)
            /\ delim' = ","
            /\ held' = <<i>>
            /\ i' = i + 1
            /\ pc' = "loop"
            /\ UNCHANGED result
       ELSE /\ result' = "Err"
            /\ pc' = "done"
            /\ UNCHANGED <<i, next, count, delim, held>>
    /\ UNCHANGED <<enrichVars, calls, collector, events, payload>>

\* SendErr with the failed batch sent again.
SendErr_Retried ==
    /\ pc \in {"send_flush", "send_final"}
    /\ Len(requests) < MaxEvents + 2
    /\ \E o \in TransportOutcomes :
          /\ send_batch(o) = "Err"
          /\ requests' = Append(requests, Request(o))
    /\ UNCHANGED <<enrichVars, calls, collector, pc, events, i, next, count, delim, payload, result,
                   held>>

\* try! at line 83 or 96: send_batch returns Err and dispatch returns it.
SendErr ==
    /\ pc \in {"send_flush", "send_final"}
    /\ \E o \in TransportOutcomes :
          /\ send_batch(o) = "Err"
          /\ requests' = Append(requests, Request(o))
    /\ result' = "Err"
    /\ pc' = "done"
    /\ UNCHANGED <<enrichVars, calls, collector, events, i, next, count, delim, payload, held>>

\* dispatch has returned: its locals are gone, the collector is as it was
\* and can be handed the next slice.
Return ==
    /\ pc = "done"
    /\ pc' = "idle"
    /\ events' = << >>
    /\ i' = 1
    /\ next' = ""
    /\ count' = 0
    /\ delim' = ""
    /\ payload' = ""
    /\ result' = "none"
    /\ requests' = << >>
    /\ held' = << >>
    /\ UNCHANGED <<enrichVars, calls, collector, enrichVars, calls>>

Next ==
    \/ Dispatch
    \/ DropEvent
    \/ FlushBatch
    \/ AppendEvent
    \/ CloseFinal
    \/ SendFlushOk
    \/ SendFinalOk
    \/ SendErr
    \/ Return

Spec == Init /\ [][Next]_vars

---------------------------------------------------------------------------
(* dispatch as a function of its input, when no send fails                 *)

\* One pass of the loop body (lines 81-92) for the fragment frag; bodies
\* collects what line 83 hands to send_batch.
BatchStep(st, frag, batch_limit_bytes) ==
    IF st.delim # "" /\ st.count + Len(st.delim) + Len(frag) > batch_limit_bytes
    THEN [next   |-> HEADER \o frag,
          count  |-> HEADER_LEN + FOOTER_LEN + Len(frag),
          delim  |-> ",",
          bodies |-> Append(st.bodies, st.next \o FOOTER)]
    ELSE [next   |-> st.next \o st.delim \o frag,
          count  |-> st.count + Len(st.delim) + Len(frag),
          delim  |-> ",",
          bodies |-> st.bodies]

RECURSIVE BatchLoop(_, _, _)
\* The loop of lines 70-93 over evs, then the final send of lines 95-96.
\* (st2 is a bound variable so that it is worked out once.)
BatchLoop(st, evs, c) ==
    IF evs = << >>
    THEN Append(st.bodies, st.next \o FOOTER)
    ELSE LET p == PayloadOf[Head(evs), c.event_body_limit_bytes] IN
         CHOOSE bodies \in
             {BatchLoop(st2, Tail(evs), c) :
                 st2 \in {IF p.kind = "Dropped" THEN st
                          ELSE BatchStep(st, p.text, c.batch_limit_bytes)}} :
             TRUE

\* The bodies dispatch(evs) sends, in order, when every send_batch returns Ok.
BodiesSent(evs, c) ==
    BatchLoop([next |-> HEADER, count |-> HEADER_LEN + FOOTER_LEN, delim |-> "",
               bodies |-> << >>], evs, c)

---------------------------------------------------------------------------
(* Vocabulary of the properties                                            *)

Failed(r) == send_batch(r.outcome) = "Err"

\* The index of the first failed send_batch call, 0 if none failed.
FirstFailure ==
    IF \E k \in 1..Len(requests) : Failed(requests[k])
    THEN CHOOSE k \in 1..Len(requests) :
             /\ Failed(requests[k])
             /\ \A j \in 1..(k - 1) : ~Failed(requests[j])
    ELSE 0

\* The bodies of the calls that returned Ok, in order.
Delivered ==
    LET ok == SelectSeq(requests, LAMBDA r : ~Failed(r)) IN
    [k \in 1..Len(ok) |-> ok[k].body]

\* What the batcher made of the event at index j of the input.
FragmentOf(j) == PayloadOf[events[j], collector.event_body_limit_bytes]

\* The indices of the input events that are not dropped, ascending.
Kept == SelectSeq([j \in 1..Len(events) |-> j],
                  LAMBDA j : FragmentOf(j).kind # "Dropped")

RECURSIVE JoinWithCommas(_)
\* The fragments of the events at the indices js, with a comma between each
\* two.
JoinWithCommas(js) ==
    IF js = << >> THEN ""
    ELSE IF Len(js) = 1 THEN FragmentOf(js[1]).text
    ELSE FragmentOf(js[1]).text \o "," \o JoinWithCommas(Tail(js))

RECURSIVE Flatten(_)
Flatten(ss) == IF ss = << >> THEN << >> ELSE Head(ss) \o Flatten(Tail(ss))

\* The event indices of all requests, in send order.
SentIndices == Flatten([k \in 1..Len(requests) |-> requests[k].evs])

---------------------------------------------------------------------------
(* C1                                                                      *)

C1_State ==
    /\ result = "Ok" => \A k \in 1..Len(requests) : ~Failed(requests[k])
    /\ \A k \in 1..Len(requests) :
          Failed(requests[k]) =>
              /\ k = Len(requests)
              /\ pc = "done"
              /\ result = "Err"

\* C1: dispatch returns Ok only if every send_batch call it issued returned
\* Ok; a failed call is the last call of the dispatch, dispatch has then
\* returned Err, and the only step left is the return to the caller: no
\* further send, no further event formatted or appended, no retry.
C1_OkOnlyIfAllSendsOk ==
    /\ []C1_State
    /\ [][FirstFailure # 0 => (pc' = "idle" /\ requests' = << >>)]_vars

\* A send has succeeded, the next one failed, and events were left unsent.
C1_Witness ==
    /\ pc = "done" /\ result = "Err"
    /\ Len(requests) >= 2
    /\ FirstFailure = Len(requests)
    /\ i <= Len(events)

---------------------------------------------------------------------------
(* C2                                                                      *)

\* C2: every send_batch call of a dispatch carries the body that the same
\* input produces at the same position when no send fails, and when the k-th
\* call is the first to fail the bodies delivered are exactly the first k-1
\* of those, in order (none rolled back, none sent again).
C2_PartialDeliveryIsPrefix ==
    pc # "idle" =>
        \A ref \in {BodiesSent(events, collector)} :
        /\ Len(requests) <= Len(ref)
        /\ \A k \in 1..Len(requests) : requests[k].body = ref[k]
        /\ FirstFailure # 0 => Delivered = SubSeq(ref, 1, FirstFailure - 1)
        /\ FirstFailure = 0 => Delivered = SubSeq(ref, 1, Len(requests))

\* The third send of a dispatch failed after two were delivered.
C2_Witness ==
    /\ pc = "done"
    /\ FirstFailure = 3
    /\ Len(Delivered) = 2
    /\ Len(BodiesSent(events, collector)) >= 3

---------------------------------------------------------------------------
(* C3                                                                      *)

\* C3: when no send fails, each body sent is the header, the fragments of
\* its batch with single commas between them, and the footer; and the
\* batches, one after the other, hold the non-dropped events of the input,
\* each once, in input order.
C3_BodiesHoldEveryKeptEventOnce ==
    (pc = "done" /\ result = "Ok") =>
        /\ \A k \in 1..Len(requests) :
              requests[k].body = HEADER \o JoinWithCommas(requests[k].evs) \o FOOTER
        /\ SentIndices = Kept

\* Two bodies were sent, one of them holding two events.
C3_Witness ==
    /\ pc = "done" /\ result = "Ok"
    /\ Len(requests) >= 2
    /\ \E k \in 1..Len(requests) : Len(requests[k].evs) >= 2

---------------------------------------------------------------------------
(* C4                                                                      *)

\* The requests whose body is longer than the batch limit.
OverLimit ==
    {k \in 1..Len(requests) : Len(requests[k].body) > collector.batch_limit_bytes}

\* The event at index j does not fit in a batch of its own.
TooBigForBatch(j) ==
    /\ FragmentOf(j).kind # "Dropped"
    /\ HEADER_LEN + FOOTER_LEN + Len(FragmentOf(j).text) > collector.batch_limit_bytes

\* C4 as stated: at most one body of a dispatch call is longer than
\* batch_limit_bytes, and that body holds a single event, which is too big
\* for the batch limit.
C4_AtMostOneOversizeBatch ==
    /\ Cardinality(OverLimit) <= 1
    /\ \A k \in OverLimit :
          /\ Len(requests[k].evs) = 1
          /\ TooBigForBatch(requests[k].evs[1])

\* C4 amended: a body longer than batch_limit_bytes holds at most one event
\* (exactly one, itself too big for the limit, when the limit is at least the
\* length of an empty body); one dispatch call can send several such bodies.
C4_OversizeBatchHoldsOneEvent ==
    \A k \in OverLimit :
        /\ Len(requests[k].evs) <= 1
        /\ collector.batch_limit_bytes >= HEADER_LEN + FOOTER_LEN =>
              /\ Len(requests[k].evs) = 1
              /\ TooBigForBatch(requests[k].evs[1])

\* A dispatch call that sent two bodies over the limit and one within it.
C4_Witness ==
    /\ pc = "done"
    /\ collector.batch_limit_bytes >= HEADER_LEN + FOOTER_LEN
    /\ Cardinality(OverLimit) = 2
    /\ Len(requests) = 3

---------------------------------------------------------------------------
(* C5                                                                      *)

RECURSIVE SumLen(_)
\* The cumulative length of the fragments of the events at the indices js.
SumLen(js) ==
    IF js = << >> THEN 0 ELSE Len(FragmentOf(Head(js)).text) + SumLen(Tail(js))

\* C5 as stated: when no send fails, an input whose fragments add up to more
\* than batch_limit_bytes is sent in at least two send_batch calls.
C5_OverBudgetInputSentInTwo ==
    (pc = "done" /\ result = "Ok" /\ SumLen(Kept) > collector.batch_limit_bytes)
        => Len(requests) >= 2

\* C5 amended: when no send fails, an input with at least two non-dropped
\* events whose fragments add up to more than batch_limit_bytes is sent in
\* at least two send_batch calls.
C5_TwoKeptEventsOverBudgetSentInTwo ==
    (/\ pc = "done" /\ result = "Ok"
     /\ Len(Kept) >= 2
     /\ SumLen(Kept) > collector.batch_limit_bytes)
        => Len(requests) >= 2

\* Two events that each fit the limit and together do not were sent.
C5_Witness ==
    /\ pc = "done" /\ result = "Ok"
    /\ Len(Kept) = 2
    /\ \A k \in 1..2 : ~TooBigForBatch(Kept[k])
    /\ SumLen(Kept) > collector.batch_limit_bytes

---------------------------------------------------------------------------
(* C6                                                                      *)

\* C6: every body sent for a non-empty input holds at least one event.
C6_NoEmptyBatchForNonEmptyInput ==
    Len(events) > 0 => \A k \in 1..Len(requests) : Len(requests[k].evs) >= 1

---------------------------------------------------------------------------
(* C7                                                                      *)

\* C7: dispatch of an empty slice makes exactly one send_batch call, with the
\* body {"Events":[]}, and returns what that call returned.
C7_EmptyInputSendsOneEmptyBatch ==
    /\ (pc \in {"loop", "send_final"} /\ events = << >>) => requests = << >>
    /\ (pc = "done" /\ events = << >>) =>
          /\ Len(requests) = 1
          /\ requests[1].body = "{\"Events\":[]}"
          /\ result = send_batch(requests[1].outcome)

\* dispatch of an empty slice has returned the error of its one send.
C7_Witness ==
    /\ pc = "done" /\ events = << >>
    /\ Len(requests) = 1
    /\ result = "Err"

---------------------------------------------------------------------------
(* C8                                                                      *)

\* The byte lengths of the fragment and of the placeholder of every sample
\* event.
FragmentLengths ==
    [e \in SampleEvents |->
        [normal      |-> Len(format_payload(e)),
         placeholder |-> Len(format_oversize_placeholder(e))]]

\* The loop is at an event whose fragment and placeholder both exceed
\* event_body_limit_bytes.
AtDroppedEvent ==
    /\ pc = "loop" /\ i <= Len(events)
    /\ FragmentLengths[events[i]].normal > collector.event_body_limit_bytes
    /\ FragmentLengths[events[i]].placeholder > collector.event_body_limit_bytes

C8_State ==
    /\ \A j \in 1..Len(events) :
          FragmentOf(j).kind = "Dropped" =>
              /\ \A k \in 1..Len(held) : held[k] # j
              /\ \A k \in 1..Len(SentIndices) : SentIndices[k] # j
    /\ result = "Err" => (requests # << >> /\ Failed(requests[Len(requests)]))
    /\ (pc = "done" /\ result = "Ok") => SentIndices = Kept

\* C8: an event whose fragment and placeholder both exceed
\* event_body_limit_bytes is in no batch; the step that skips it leaves the
\* buffer, the counter and the delimiter as they were and the loop running;
\* dispatch returns Err only for a failed send, and when it returns Ok every
\* non-dropped event, those after a dropped one included, has been sent.
C8_DroppedEventLeavesNoTrace ==
    /\ []C8_State
    /\ [][AtDroppedEvent =>
             /\ UNCHANGED <<next, count, delim, held, requests, result>>
             /\ pc' = "loop"
             /\ i' = i + 1]_vars

\* A dropped event was followed by an event that has been sent.
C8_Witness ==
    /\ pc = "done" /\ result = "Ok"
    /\ \E j \in 1..Len(events), k \in 1..Len(SentIndices) :
          /\ FragmentOf(j).kind = "Dropped"
          /\ j < SentIndices[k]

---------------------------------------------------------------------------
(* C9                                                                      *)

\* The requests that hold the event at index j.
RequestsHolding(j) ==
    {k \in 1..Len(requests) : \E m \in 1..Len(requests[k].evs) : requests[k].evs[m] = j}

\* C9: an event whose fragment is within event_body_limit_bytes and too big
\* for batch_limit_bytes is alone in its batch and handed to send_batch at
\* most once; once the loop is past it, it is in the buffer or in a request
\* (it is not dropped); and when dispatch returns Ok it was sent exactly once.
C9_OversizeFragmentSentAlone ==
    \A j \in 1..Len(events) :
        TooBigForBatch(j) =>
            /\ \A k \in RequestsHolding(j) : requests[k].evs = <<j>>
            /\ (\E m \in 1..Len(held) : held[m] = j) => held = <<j>>
            /\ Cardinality(RequestsHolding(j)) <= 1
            /\ j < i => (held = <<j>> \/ RequestsHolding(j) # {})
            /\ (pc = "done" /\ result = "Ok") => Cardinality(RequestsHolding(j)) = 1

\* An event too big for the batch limit was sent between two that fit, each
\* of the three in a batch of its own.
C9_Witness ==
    /\ pc = "done" /\ result = "Ok"
    /\ Len(events) = 3
    /\ ~TooBigForBatch(1) /\ TooBigForBatch(2) /\ ~TooBigForBatch(3)
    /\ collector.batch_limit_bytes >= HEADER_LEN + FOOTER_LEN
    /\ SentIndices = <<1, 2, 3>>
    /\ Len(requests) = 3

---------------------------------------------------------------------------
(* C10                                                                     *)

\* The literal text of the claim's placeholder message template.
TooLargeText ==
    <<"(","E","v","e","n","t"," ","t","o","o"," ","l","a","r","g","e",")"," ">>

\* The first 64 characters of the template, the whole template if shorter.
First64(event) == SubSeq(event.text, 1, IF Len(event.text) < 64 THEN Len(event.text) ELSE 64)

\* The placeholder record with the message template mt (a JSON string) and
\* the two properties target and initial.
PlaceholderWith(event, mt) ==
    "{\"Timestamp\":\"" \o FormatTimestamp(event.timestamp)
        \o "\",\"Level\":\"" \o SEQ_LEVEL_NAMES[event.level + 1]
        \o "\",\"MessageTemplate\":" \o mt
        \o ",\"Properties\":{\"target\":\"emit::collectors::seq\",\"initial\":"
        \o JsonString(First64(event)) \o "}}"

\* The indices of the events that are batched as placeholders.
Placeholders ==
    {j \in 1..Len(events) :
        /\ FragmentOf(j).kind = "Placeholder"
        /\ \E k \in 1..Len(SentIndices) : SentIndices[k] = j}

\* C10 as stated: the MessageTemplate of a placeholder is "(Event too large) "
\* followed by the first 64 characters of the template followed by "...",
\* and its Properties are target and initial, initial being those characters
\* JSON-escaped.
C10_PlaceholderTemplateHoldsInitial ==
    \A j \in Placeholders :
        FragmentOf(j).text =
            PlaceholderWith(events[j],
                JsonString(TooLargeText \o First64(events[j]) \o <<".", ".", ".">>))

\* C10 amended: the MessageTemplate of a placeholder is the fixed text
\* "(Event too large) {initial}...", whatever the event; the first 64
\* characters of the template (the whole template if shorter) appear only as
\* the JSON-escaped value of the property initial, beside the property target.
C10_PlaceholderTemplateIsFixed ==
    \A j \in Placeholders :
        FragmentOf(j).text =
            PlaceholderWith(events[j], "\"(Event too large) {initial}...\"")

\* Placeholders were sent for a template longer than 64 characters and for
\* one of fewer characters that takes more than 64 bytes.
C10_Witness ==
    /\ pc = "done"
    /\ \E j \in Placeholders : Len(events[j].text) > 64
    /\ \E j \in Placeholders :
          Len(events[j].text) < 64 /\ ByteLen(events[j].text) > 64

---------------------------------------------------------------------------
(* C11                                                                     *)

\* The fragment and the placeholder of every sample event.
FragmentTexts ==
    [e \in SampleEvents |->
        [normal      |-> format_payload(e),
         placeholder |-> format_oversize_placeholder(e)]]

\* dispatch of the one event of the test events_are_formatted has returned Ok
\* under an event body limit of 10 bytes.
ExampleSentAtLimit10 ==
    /\ collector.event_body_limit_bytes = 10
    /\ events = <<EvExample>>
    /\ pc = "done" /\ result = "Ok"

\* C11 as stated: with event_body_limit_bytes = 10 the batch sent for the
\* Example-1 event holds the placeholder of that event.
C11_ExampleReplacedByPlaceholder ==
    ExampleSentAtLimit10 =>
        \E k \in 1..Len(requests) :
            requests[k].body =
                HEADER \o FragmentTexts[EvExample].placeholder \o FOOTER

\* C11 amended: with event_body_limit_bytes = 10 the Example-1 event is
\* dropped, its placeholder being longer than the limit as well, and the one
\* batch sent is the empty one.
C11_ExampleDroppedAtLimit10 ==
    ExampleSentAtLimit10 =>
        /\ FragmentLengths[EvExample].placeholder > 10
        /\ Len(requests) = 1
        /\ requests[1].evs = << >>
        /\ requests[1].body = "{\"Events\":[]}"

C11_Witness == ExampleSentAtLimit10

---------------------------------------------------------------------------
(* C13                                                                     *)

TransportFailures == {"send_error", "read_error"}

\* C13: a send_batch call has failed exactly when the request or the reading
\* of the response body failed; dispatch returns Err only after such a call,
\* and a call answered with a status outside 2xx counts as Ok.
C13_OnlyTransportFailuresFail ==
    /\ \A k \in 1..Len(requests) :
          Failed(requests[k]) <=> requests[k].outcome \in TransportFailures
    /\ result = "Err" =>
          /\ requests # << >>
          /\ requests[Len(requests)].outcome \in TransportFailures
    /\ (pc = "done" /\ requests # << >>
            /\ requests[Len(requests)].outcome = "status_non_2xx")
          => result = "Ok"

\* dispatch went on after a batch answered with a status outside 2xx, sent
\* the next batch and returned Ok.
C13_Witness ==
    /\ pc = "done" /\ result = "Ok"
    /\ Len(requests) >= 2
    /\ requests[1].outcome = "status_non_2xx"

---------------------------------------------------------------------------
(* C17                                                                     *)

\* The loop is at an event that is not dropped.
AtKeptEvent ==
    /\ pc = "loop" /\ i <= Len(events)
    /\ FragmentOf(i).kind # "Dropped"

\* The buffer holds an event and the fragment at hand would take count past
\* the batch limit.
FlushDue ==
    /\ held # << >>
    /\ count + 1 + Len(FragmentOf(i).text) > collector.batch_limit_bytes

\* Two non-dropped events under a batch limit of header + footer + first
\* fragment + 1.
ExampleThree ==
    /\ Len(events) = 2
    /\ Kept = <<1, 2>>
    /\ collector.batch_limit_bytes
          = HEADER_LEN + FOOTER_LEN + Len(FragmentOf(1).text) + 1

\* C17: before a non-dropped fragment the buffer is flushed exactly when it
\* holds an event and count + 1 + the fragment's length exceeds
\* batch_limit_bytes, else the fragment is appended (also when the sum equals
\* the limit); and two events under a limit of header + footer + first
\* fragment + 1 go out in two sends, one event each.
C17_FlushExactlyWhenOverLimit ==
    /\ [](( ExampleThree /\ pc = "done" /\ result = "Ok") =>
            /\ Len(requests) = 2
            /\ requests[1].evs = <<1>>
            /\ requests[2].evs = <<2>>)
    /\ [][AtKeptEvent =>
             IF FlushDue
             THEN /\ pc' = "send_flush"
                  /\ next' = next \o FOOTER
                  /\ UNCHANGED <<held, i>>
             ELSE /\ pc' = "loop"
                  /\ held' = Append(held, i)
                  /\ next' = next \o (IF held = << >> THEN "" ELSE ",")
                                  \o FragmentOf(i).text]_vars

\* A second fragment was appended that brought the body exactly to the limit.
C17_Witness ==
    /\ pc = "loop"
    /\ Len(held) = 2
    /\ requests = << >>
    /\ count = collector.batch_limit_bytes

---------------------------------------------------------------------------
(* C18                                                                     *)

\* The fragment the claim's rule selects for the event at index j: the
\* normal one if it fits, else the placeholder.
SelectedText(j) ==
    IF FragmentLengths[events[j]].normal <= collector.event_body_limit_bytes
    THEN FragmentTexts[events[j]].normal
    ELSE FragmentTexts[events[j]].placeholder

\* The claim's rule keeps the event at index j.
SelectedKept(j) ==
    \/ FragmentLengths[events[j]].normal <= collector.event_body_limit_bytes
    \/ FragmentLengths[events[j]].placeholder <= collector.event_body_limit_bytes

RECURSIVE JoinSelected(_)
JoinSelected(js) ==
    IF js = << >> THEN ""
    ELSE IF Len(js) = 1 THEN SelectedText(js[1])
    ELSE SelectedText(js[1]) \o "," \o JoinSelected(Tail(js))

\* The indices whose fragments are in the buffer or in a request.
Batched == {held[k] : k \in 1..Len(held)} \cup {SentIndices[k] : k \in 1..Len(SentIndices)}

\* C18: an event is batched as its normal fragment if that fits
\* event_body_limit_bytes, else as its placeholder if that fits, else not at
\* all; so every batched fragment is within the limit, and one whose normal
\* fragment was too long is the placeholder record, whose MessageTemplate
\* starts with "(Event too large)".
C18_FragmentChosenByLimit ==
    /\ \A j \in Batched :
          /\ SelectedKept(j)
          /\ Len(SelectedText(j)) <= collector.event_body_limit_bytes
          /\ FragmentLengths[events[j]].normal > collector.event_body_limit_bytes =>
                SelectedText(j) =
                    PlaceholderWith(events[j], "\"(Event too large) {initial}...\"")
    /\ \A j \in 1..(i - 1) : SelectedKept(j) <=> j \in Batched
    /\ \A k \in 1..Len(requests) :
          requests[k].body = HEADER \o JoinSelected(requests[k].evs) \o FOOTER

\* A normal fragment and a placeholder were sent, one of the placeholders
\* being exactly at the limit.
C18_Witness ==
    /\ pc = "done" /\ result = "Ok"
    /\ \E j \in Batched : FragmentOf(j).kind = "Placeholder"
    /\ \E j \in Batched :
          FragmentLengths[events[j]].placeholder = collector.event_body_limit_bytes
    /\ \E j \in Batched : FragmentOf(j).kind = "Normal"

---------------------------------------------------------------------------
(* C19                                                                     *)

\* C19: whenever the loop is about to take an event or to close the final
\* buffer, count is the length of next plus the footer's 2 bytes and the
\* delimiter is "," exactly when the buffer holds an event; a closed buffer
\* handed to send_batch is count bytes long.
C19_CountIsBodyLength ==
    /\ pc = "loop" =>
          /\ count = Len(next) + 2
          /\ delim \in {"", ","}
          /\ delim = "," <=> held # << >>
    /\ pc \in {"send_flush", "send_final"} => count = Len(next)

\* The loop stands after a skipped event and a flush, the buffer holding the
\* fragment that caused the flush.
C19_Witness ==
    /\ pc = "loop"
    /\ Len(requests) = 1
    /\ Len(held) = 1 /\ delim = ","
    /\ \E j \in 1..(i - 1) : FragmentOf(j).kind = "Dropped"

---------------------------------------------------------------------------
(* C20                                                                     *)

\* C20: a body that holds two or more events is at most batch_limit_bytes
\* long.
C20_MultiEventBatchWithinLimit ==
    \A k \in 1..Len(requests) :
        Len(requests[k].evs) >= 2 =>
            Len(requests[k].body) <= collector.batch_limit_bytes

\* A body of two events exactly at the limit was sent, and a longer body of
\* one event.
C20_Witness ==
    /\ \E k \in 1..Len(requests) :
          /\ Len(requests[k].evs) = 2
          /\ Len(requests[k].body) = collector.batch_limit_bytes
    /\ \E k \in 1..Len(requests) :
          /\ Len(requests[k].evs) = 1
          /\ Len(requests[k].body) > collector.batch_limit_bytes

---------------------------------------------------------------------------
(* Event and its property map                                              *)

\* The characters of the property names used below, in ascending byte order.
ByteOrder == <<"a", "b", "e", "k", "m", "n", "r", "u">>

ByteOf(c) == CHOOSE k \in 1..Len(ByteOrder) : ByteOrder[k] = c

RECURSIVE StrLess(_, _)
\* Ord of &str, the order of the map's keys: lexicographic on bytes, a proper
\* prefix coming first.
StrLess(a, b) ==
    IF b = << >> THEN FALSE
    ELSE IF a = << >> THEN TRUE
    ELSE IF Head(a) = Head(b) THEN StrLess(Tail(a), Tail(b))
    ELSE ByteOf(Head(a)) < ByteOf(Head(b))

\* BTreeMap::contains_key.
contains_key(properties, name) ==
    \E k \in 1..Len(properties) : properties[k].n = name

\* An insert that puts a new key after all the others.
insert_AtEnd(properties, name, value) ==
    IF contains_key(properties, name)
    THEN [k \in 1..Len(properties) |->
            IF properties[k].n = name THEN [n |-> name, v |-> value]
            ELSE properties[k]]
    ELSE Append(properties, [n |-> name, v |-> value])

\* BTreeMap::insert: the value of a key already there is replaced, a new key
\* goes to its place in the order of the keys.
insert(properties, name, value) ==
    IF contains_key(properties, name)
    THEN [k \in 1..Len(properties) |->
            IF properties[k].n = name THEN [n |-> name, v |-> value]
            ELSE properties[k]]
    ELSE LET below == Cardinality({k \in 1..Len(properties) :
                                      StrLess(properties[k].n, name)})
         IN  SubSeq(properties, 1, below)
                 \o <<[n |-> name, v |-> value]>>
                 \o SubSeq(properties, below + 1, Len(properties))

RECURSIVE BTreeMapOf(_)
\* The map a caller builds with BTreeMap::new and one insert per pair.
BTreeMapOf(pairs) ==
    IF pairs = << >> THEN << >>
    ELSE insert(BTreeMapOf(SubSeq(pairs, 1, Len(pairs) - 1)),
                pairs[Len(pairs)].n, pairs[Len(pairs)].v)

\* Event::new.
Event_new(timestamp, level, message_template, properties) ==
    [timestamp  |-> timestamp,
     level      |-> level,
     text       |-> message_template,
     properties |-> properties]

\* Both arms of the match insert the value under the name.
add_or_update_property(event, name, value) ==
    [event EXCEPT !.properties = insert(@, name, value)]

\* add_property_if_absent without the contains_key test.
add_property_if_absent_Overwrites(event, name, value) ==
    [event EXCEPT !.properties = insert(@, name, value)]

add_property_if_absent(event, name, value) ==
    IF ~contains_key(event.properties, name)
    THEN [event EXCEPT !.properties = insert(@, name, value)]
    ELSE event

\* Names a caller may pass: any &'static str, the empty one included.
Names ==
    {<< >>, <<"a">>, <<"a", "b">>, <<"b">>, <<"n","u","m","b","e","r">>}

\* Captured property values: JSON fragments.
Values == {"42", "\"x\""}

\* LogLevel: Error = 1 up to Trace = 5.
LogLevels == 1..5

\* The maps handed to Event::new.
InitialMaps ==
    {BTreeMapOf(<< >>),
     BTreeMapOf(<<[n |-> <<"n","u","m","b","e","r">>, v |-> "42"]>>)}

\* SeqCollector::new_local.
new_local ==
    [api_key |-> "none",
     event_body_limit_bytes |-> DEFAULT_EVENT_BODY_LIMIT_BYTES,
     batch_limit_bytes |-> DEFAULT_BATCH_LIMIT_BYTES,
     endpoint |-> LOCAL_SERVER_URL \o "api/events/raw/"]

NoArgs == [n |-> << >>, v |-> ""]

\* An event fresh from Event::new; no dispatch call is running.
InitEvent ==
    /\ collector = new_local
    /\ pc = "idle" /\ events = << >> /\ i = 1 /\ next = "" /\ count = 0
    /\ delim = "" /\ payload = "" /\ result = "none"
    /\ requests = << >> /\ held = << >>
    /\ calls = << >>
    /\ \E level \in LogLevels, properties \in InitialMaps :
          ev = Event_new(Timestamp2014, level, EvExample.text, properties)
    /\ call = [op |-> "new", args |-> NoArgs]
    /\ out = ""

AddOrUpdateProperty ==
    /\ \E name \in Names, value \in Values :
          /\ ev' = add_or_update_property(ev, name, value)
          /\ call' = [op |-> "add_or_update_property",
                      args |-> [n |-> name, v |-> value]]
    /\ out' = ""
    /\ UNCHANGED <<collector, dispatchVars, calls>>

AddPropertyIfAbsent ==
    /\ \E name \in Names, value \in Values :
          /\ ev' = add_property_if_absent(ev, name, value)
          /\ call' = [op |-> "add_property_if_absent",
                      args |-> [n |-> name, v |-> value]]
    /\ out' = ""
    /\ UNCHANGED <<collector, dispatchVars, calls>>

\* The collector formats the event as it stands.
FormatPayload ==
    /\ out' = format_payload(ev)
    /\ call' = [op |-> "format_payload", args |-> NoArgs]
    /\ UNCHANGED <<collector, dispatchVars, calls, ev>>

NextEvent ==
    \/ AddOrUpdateProperty
    \/ AddPropertyIfAbsent
    \/ FormatPayload

SpecEvent == InitEvent /\ [][NextEvent]_vars

---------------------------------------------------------------------------
(* C14                                                                     *)

\* The display name of each severity ordinal.
DisplayName ==
    [l \in LogLevels |->
        CASE l = 1 -> "Error"
          [] l = 2 -> "Warning"
          [] l = 3 -> "Information"
          [] l = 4 -> "Debug"
          [] l = 5 -> "Verbose"]

NamesOf(properties) == {properties[k].n : k \in 1..Len(properties)}

ValueOf(properties, name) ==
    (CHOOSE p \in {properties[k] : k \in 1..Len(properties)} : p.n = name).v

RECURSIVE Ascending(_)
\* The names of a set, least first.
Ascending(S) ==
    IF S = {} THEN << >>
    ELSE LET least == CHOOSE x \in S : \A y \in S \ {x} : StrLess(x, y)
         IN  <<least>> \o Ascending(S \ {least})

RECURSIVE JoinEntries(_, _)
\* "name":value for each of the names in turn, separated by commas.
JoinEntries(names, properties) ==
    IF names = << >> THEN ""
    ELSE "\"" \o Concat(Head(names)) \o "\":"
             \o ValueOf(properties, Head(names))
             \o (IF Len(names) = 1 THEN "" ELSE ",")
             \o JoinEntries(Tail(names), properties)

\* C14: a formatted payload is one object with the keys Timestamp, Level,
\* MessageTemplate and Properties in this order, Level being the display
\* name of the event's ordinal and Properties holding the entries in
\* ascending order of their names, comma-separated, values as stored; the
\* event of Example 1 gives the string of Example 1.
C14_PayloadLayout ==
    out # "" =>
        /\ out = "{\"Timestamp\":\"" \o FormatTimestamp(ev.timestamp) \o "\""
                   \o ",\"Level\":\"" \o DisplayName[ev.level] \o "\""
                   \o ",\"MessageTemplate\":" \o JsonString(ev.text)
                   \o ",\"Properties\":{"
                   \o JoinEntries(Ascending(NamesOf(ev.properties)), ev.properties)
                   \o "}}"
        /\ ev = EvExample =>
              out = "{\"Timestamp\":\"2014-07-08T09:10:11Z\",\"Level\":\"Warning\",\"MessageTemplate\":\"The number is {number}\",\"Properties\":{\"number\":42}}"

\* An event was formatted whose properties were added out of order, one name
\* being a prefix of another.
C14_Witness ==
    /\ out # ""
    /\ ev.level = 2
    /\ {<<"a">>, <<"a", "b">>, <<"b">>} \subseteq NamesOf(ev.properties)

---------------------------------------------------------------------------
(* C15                                                                     *)

\* The property map as a set of name-value pairs.
AsMap(properties) ==
    {<<properties[k].n, properties[k].v>> : k \in 1..Len(properties)}

\* The pairs of the names other than the given one.
Others(properties, name) == {p \in AsMap(properties) : p[1] # name}

\* C15: add_property_if_absent leaves the whole mapping unchanged when the
\* name is present and adds exactly the one entry when it is absent;
\* add_or_update_property leaves the name mapped to the new value; either
\* way every other property keeps its value, and each name occurs once.
C15_MutatorsTouchOneName ==
    /\ [](\A j, k \in 1..Len(ev.properties) :
              ev.properties[j].n = ev.properties[k].n => j = k)
    /\ [][/\ call'.op = "add_property_if_absent" =>
                IF contains_key(ev.properties, call'.args.n)
                THEN ev'.properties = ev.properties
                ELSE AsMap(ev'.properties)
                        = AsMap(ev.properties) \cup {<<call'.args.n, call'.args.v>>}
          /\ call'.op = "add_or_update_property" =>
                /\ <<call'.args.n, call'.args.v>> \in AsMap(ev'.properties)
                /\ Others(ev'.properties, call'.args.n)
                      = Others(ev.properties, call'.args.n)
          /\ call'.op = "format_payload" => ev' = ev
          /\ Len(ev'.properties) = Cardinality(NamesOf(ev'.properties))]_vars

\* add_property_if_absent was called with a name already mapped to another
\* value.
C15_Witness ==
    /\ call.op = "add_property_if_absent"
    /\ \E p \in AsMap(ev.properties) : p[1] = call.args.n /\ p[2] # call.args.v
    /\ Len(ev.properties) >= 2

---------------------------------------------------------------------------
(* C16                                                                     *)

\* C16: no property of the event has an empty name.
C16_NoEmptyPropertyName ==
    \A k \in 1..Len(ev.properties) : ev.properties[k].n # << >>

---------------------------------------------------------------------------
(* Several dispatch calls on one SeqCollector                              *)

\* The longest slice handed to a concurrent call.
MaxConcEvents == 2

\* The threads that call dispatch on the shared collector.
CallIds == {"t1", "t2"}

ConcEvents == {EvExample, EvShort}

ConcInputs == SeqsUpTo(ConcEvents, MaxConcEvents)

\* A collector under which EvExample is dropped and two EvShort do not fit
\* one batch, and one under which EvExample and EvShort exactly fill a batch.
ConcCollectors ==
    {c \in Collectors :
        \/ /\ c.event_body_limit_bytes = Len(format_payload(EvShort))
           /\ c.batch_limit_bytes
                 = HEADER_LEN + FOOTER_LEN + Len(format_payload(EvExample)) + 1
        \/ /\ c.event_body_limit_bytes = DEFAULT_EVENT_BODY_LIMIT_BYTES
           /\ c.batch_limit_bytes
                 = HEADER_LEN + FOOTER_LEN + Len(format_payload(EvExample)) + 1
                      + Len(format_payload(EvShort))}

\* The locals of a call that has not entered dispatch; sent collects the
\* bodies the call hands to send_batch.
IdleCall ==
    [pc |-> "idle", events |-> << >>, i |-> 1, next |-> "", count |-> 0,
     delim |-> "", payload |-> "", result |-> "none", sent |-> << >>]

InitConc ==
    /\ collector \in ConcCollectors
    /\ pc = "idle" /\ events = << >> /\ i = 1 /\ next = "" /\ count = 0
    /\ delim = "" /\ payload = "" /\ result = "none"
    /\ requests = << >> /\ held = << >>
    /\ ev = << >> /\ call = << >> /\ out = ""
    /\ calls = [c \in CallIds |-> IdleCall]

\* The payload of the event call c is at.
ConcCurrent(c) ==
    PayloadOf[calls[c].events[calls[c].i], collector.event_body_limit_bytes]

\* Line 81 on the locals of call c.
ConcMustFlush(c, p) ==
    /\ calls[c].delim # ""
    /\ calls[c].count + Len(calls[c].delim) + Len(p)
          > collector.batch_limit_bytes

\* Thread c enters dispatch with its own slice: lines 66-68.
ConcDispatch(c) ==
    /\ calls[c].pc = "idle"
    /\ \E evs \in ConcInputs :
          calls' = [calls EXCEPT ![c] =
                       [pc |-> "loop", events |-> evs, i |-> 1,
                        next |-> HEADER, count |-> HEADER_LEN + FOOTER_LEN,
                        delim |-> "", payload |-> "", result |-> "none",
                        sent |-> << >>]]
    /\ UNCHANGED <<collector, dispatchVars, enrichVars>>

\* Lines 72-77 in call c.
ConcDropEvent(c) ==
    /\ calls[c].pc = "loop" /\ calls[c].i <= Len(calls[c].events)
    /\ ConcCurrent(c).kind = "Dropped"
    /\ calls' = [calls EXCEPT ![c].i = @ + 1]
    /\ UNCHANGED <<collector, dispatchVars, enrichVars>>

\* Lines 81-82 in call c.
ConcFlushBatch(c) ==
    /\ calls[c].pc = "loop" /\ calls[c].i <= Len(calls[c].events)
    /\ ConcCurrent(c).kind # "Dropped"
    /\ ConcMustFlush(c, ConcCurrent(c).text)
    /\ calls' = [calls EXCEPT ![c].payload = ConcCurrent(c).text,
                              ![c].next = @ \o FOOTER,
                              ![c].pc = "send_flush"]
    /\ UNCHANGED <<collector, dispatchVars, enrichVars>>

\* The append of lines 88-92 with the buffer kept in one place for all
\* calls: the fragment also lands in the buffer of every other running call.
ConcAppendEvent_SharedBuffer(c) ==
    /\ calls[c].pc = "loop" /\ calls[c].i <= Len(calls[c].events)
    /\ ConcCurrent(c).kind # "Dropped"
    /\ ~ConcMustFlush(c, ConcCurrent(c).text)
    /\ calls' = [d \in CallIds |->
                    IF d = c
                    THEN [calls[c] EXCEPT
                             !.payload = ConcCurrent(c).text,
                             !.next = @ \o calls[c].delim \o ConcCurrent(c).text,
                             !.count = @ + Len(calls[c].delim)
                                         + Len(ConcCurrent(c).text),
                             !.delim = ",",
                             !.i = @ + 1]
                    ELSE IF calls[d].pc = "loop"
                    THEN [calls[d] EXCEPT
                             !.next = @ \o calls[c].delim \o ConcCurrent(c).text]
                    ELSE calls[d]]
    /\ UNCHANGED <<collector, dispatchVars, enrichVars>>

\* Lines 88-92 in call c.
ConcAppendEvent(c) ==
    /\ calls[c].pc = "loop" /\ calls[c].i <= Len(calls[c].events)
    /\ ConcCurrent(c).kind # "Dropped"
    /\ ~ConcMustFlush(c, ConcCurrent(c).text)
    /\ calls' = [calls EXCEPT
                    ![c].payload = ConcCurrent(c).text,
                    ![c].next = @ \o calls[c].delim \o ConcCurrent(c).text,
                    ![c].count = @ + Len(calls[c].delim)
                                   + Len(ConcCurrent(c).text),
                    ![c].delim = ",",
                    ![c].i = @ + 1]
    /\ UNCHANGED <<collector, dispatchVars, enrichVars>>

\* Line 95 in call c.
ConcCloseFinal(c) ==
    /\ calls[c].pc = "loop" /\ calls[c].i > Len(calls[c].events)
    /\ calls' = [calls EXCEPT ![c].next = @ \o FOOTER,
                              ![c].pc = "send_final"]
    /\ UNCHANGED <<collector, dispatchVars, enrichVars>>

\* Line 83 returns Ok in call c: lines 85-87.
ConcSendFlushOk(c) ==
    /\ calls[c].pc = "send_flush"
    /\ \E o \in TransportOutcomes : send_batch(o) = "Ok"
    /\ calls' = [calls EXCEPT
                    ![c].sent = Append(@, calls[c].next),
                    ![c].next = HEADER \o calls[c].payload,
                    ![c].count = HEADER_LEN + FOOTER_LEN + Len(calls[c].payload),
                    ![c].delim = ",",
                    ![c].i = @ + 1,
                    ![c].pc = "loop"]
    /\ UNCHANGED <<collector, dispatchVars, enrichVars>>

\* Line 96 returns Ok in call c: dispatch returns Ok(()).
ConcSendFinalOk(c) ==
    /\ calls[c].pc = "send_final"
    /\ \E o \in TransportOutcomes : send_batch(o) = "Ok"
    /\ calls' = [calls EXCEPT
                    ![c].sent = Append(@, calls[c].next),
                    ![c].result = "Ok",
                    ![c].pc = "done"]
    /\ UNCHANGED <<collector, dispatchVars, enrichVars>>

\* try! at line 83 or 96 in call c: dispatch returns the error.
ConcSendErr(c) ==
    /\ calls[c].pc \in {"send_flush", "send_final"}
    /\ \E o \in TransportOutcomes : send_batch(o) = "Err"
    /\ calls' = [calls EXCEPT
                    ![c].sent = Append(@, calls[c].next),
                    ![c].result = "Err",
                    ![c].pc = "done"]
    /\ UNCHANGED <<collector, dispatchVars, enrichVars>>

NextConc ==
    \E c \in CallIds :
        \/ ConcDispatch(c)
        \/ ConcDropEvent(c)
        \/ ConcFlushBatch(c)
        \/ ConcAppendEvent(c)
        \/ ConcCloseFinal(c)
        \/ ConcSendFlushOk(c)
        \/ ConcSendFinalOk(c)
        \/ ConcSendErr(c)

SpecConc == InitConc /\ [][NextConc]_vars

---------------------------------------------------------------------------
(* C12                                                                     *)

\* The bodies each slice gives under each collector when it is dispatched
\* alone and no send fails.
AloneBodies ==
    [evs \in ConcInputs, c \in ConcCollectors |-> BodiesSent(evs, c)]

IsPrefix(s, t) == Len(s) <= Len(t) /\ s = SubSeq(t, 1, Len(s))

\* C12: however the calls interleave, the bodies a call has handed to
\* send_batch are the first bodies that call sends for its own slice when it
\* runs alone, all of them once it has returned Ok; and no step of dispatch
\* changes the collector.
C12_CallsDoNotInterfere ==
    /\ [](\A c \in CallIds :
             calls[c].pc # "idle" =>
                 /\ IsPrefix(calls[c].sent, AloneBodies[calls[c].events, collector])
                 /\ calls[c].result = "Ok" =>
                       calls[c].sent = AloneBodies[calls[c].events, collector]
                 /\ calls[c].result = "Err" => calls[c].sent # << >>)
    /\ [][collector' = collector]_vars

\* Both calls are under way with different slices: one has flushed a batch
\* and is about to send its last one, the other is about to send its only one.
C12_Witness ==
    /\ calls["t1"].pc = "send_final" /\ Len(calls["t1"].sent) = 1
    /\ calls["t2"].pc = "send_final" /\ calls["t2"].sent = << >>
    /\ calls["t2"].events # << >>
    /\ calls["t1"].events # calls["t2"].events

=============================================================================
